---- MODULE Spec2Model ----
(***************************************************************************)
(* A model of process_plot.api.profile_process: the psutil-based polling   *)
(* loop that samples a target process (and optionally its descendants)     *)
(* and writes one delimited row per sampled process per tick.              *)
(*                                                                         *)
(* The program is modelled statement group by statement group (pc), the    *)
(* operating system (target process, its children, the wall clock) by      *)
(* environment actions that interleave with it.  Values read from psutil   *)
(* are symbolic tokens: "cpu_times" stands for the named tuple returned by *)
(* Process.cpu_times(), "cpu_times.user" for the text of its user field.   *)
(***************************************************************************)
EXTENDS Integers, Sequences, FiniteSets, TLC

VARIABLES
    args,          \* keyword arguments of profile_process
    os_name,       \* os.name of the host
    target,        \* OS state of the process named by pid
    children,      \* pids of the live descendants of the target
    clock,         \* time.time(), in units since the target was created
    pc,            \* position of profile_process
    outcome,       \* how the call ended ("running" while it has not)
    col_headers,   \* local col_headers
    iteration,     \* local iteration
    proc,          \* local proc (the psutil.Process handle)
    elapsed_time,  \* local elapsed_time
    data,          \* local data (dict of the main process)
    child_data,    \* local child_data (list of dicts)
    pending,       \* children enumerated and not yet fetched (list comprehension)
    acc,           \* dicts collected so far by the list comprehension
    idx,           \* position of the write loop in [data, *child_data]
    out,           \* the strings written to output_stream, in order
    flushed,       \* number of written strings covered by the last flush()
    sleeps,        \* history: number of time.sleep calls made
    queried,       \* history: some psutil query has been made
    tick_of,       \* history: tick_of[i] is the iteration that wrote out[i] (0: header)
    fd_failed,     \* history: pids whose num_fds/num_handles query failed in this tick
    reason,        \* history: the statement that ended the call ("" while it runs)
    seen,          \* history: the target state the liveness test of this tick met
    cli            \* the caller: cli.cmd_exec (its options and position) or a direct call

\* profile.profile_process (the ps-based profiler)
VARIABLES
    ps_args,       \* its arguments: quit_if_none, quit_poll_func, output_stream, ...
    matching,      \* the pids whose ps rows match `process` at this moment
    ps_pc,         \* position in profile.profile_process
    pinfoset,      \* local pinfoset: the records of the last poll
    ps_idx,        \* position of the write loop in pinfoset
    ps_out,        \* the strings written to output_stream, in order
    ps_flushed,    \* number of written strings covered by the last flush()
    polls,         \* history: number of poll_process calls made
    quit_calls,    \* history: number of quit_poll_func calls made
    quit_said,     \* history: what the last quit_poll_func call returned
    ps_sleeps,     \* history: number of time.sleep calls made
    poll_of        \* history: poll_of[i] is the poll that wrote ps_out[i] (0: header)

psVars == <<ps_args, matching, ps_pc, pinfoset, ps_idx, ps_out, ps_flushed, polls,
            quit_calls, quit_said, ps_sleeps, poll_of>>

vars == <<args, os_name, target, children, clock, pc, outcome, col_headers,
          iteration, proc, elapsed_time, data, child_data, pending, acc, idx,
          out, flushed, sleeps, queried, tick_of, fd_failed, reason, seen, cli,
          psVars>>

envVars == <<target, children, clock>>
progVars == <<pc, outcome, col_headers, iteration, proc, elapsed_time, data,
              child_data, pending, acc, idx, out, flushed, sleeps, queried,
              tick_of, fd_failed, reason, seen>>

---------------------------------------------------------------------------
(* Bounds of the model *)

MaxIter == 2        \* caps range over 0..MaxIter; an uncapped run is cut after MaxIter ticks
MaxClock == 1       \* the clock takes the values 0..MaxClock
ChildPids == {2, 3} \* pids the target's descendants may have

---------------------------------------------------------------------------
(* Values *)

MainPid == 1
NoCap == -1          \* max_iterations=None
None == "None"       \* Python None; str(None) is "None"
Unbound == <<>>      \* a local that has not been assigned

COLUMNS_DESCRIPT ==
    << "type", "pid", "elapsed_secs", "cpu_time_user_secs", "cpu_time_sys_secs",
       "cpu_percent", "threads_num", "memory_rss_bytes", "memory_vms_bytes",
       "files_num" >>

POSIX == os_name = "posix"
WINDOWS == os_name = "nt"

attrs == <<"pid", "cpu_times", "cpu_percent", "num_threads", "memory_info">>

\* The attributes psutil could not read in one as_dict call (AccessDenied or
\* ZombieProcess): as_dict stores ad_value=None for each of them.
\* Either every attribute is read, or the process is out of reach and none is
\* (cpu_percent is computed from cpu_times, so it is lost with it).
DeniedSets ==
    { {}, {"cpu_times", "cpu_percent", "num_threads", "memory_info"} }

\* str() of the small naturals the model uses
DigitStr == <<"0", "1", "2", "3", "4", "5", "6", "7", "8", "9">>
Str(n) == DigitStr[n + 1]

\* list.remove(x): drops the first occurrence of x
ListRemove(s, x) ==
    LET i == CHOOSE k \in 1..Len(s) : s[k] = x /\ \A j \in 1..(k - 1) : s[j] # x
    IN SubSeq(s, 1, i - 1) \o SubSeq(s, i + 1, Len(s))

\* sep.join(fields): the fields with sep between consecutive ones
RECURSIVE Join(_, _)
Join(fields, sep) ==
    IF fields = <<>> THEN <<>>
    ELSE IF Len(fields) = 1 THEN <<fields[1]>>
    ELSE <<fields[1], sep>> \o Join(Tail(fields), sep)

\* Process.as_dict(attrs=attrs) of process p when the attributes in denied
\* could not be read
AsDict(p, denied) ==
    [a \in {attrs[i] : i \in 1..Len(attrs)} |->
        IF a = "pid" THEN Str(p)
        ELSE IF a \in denied THEN None
        ELSE a]

\* dict.get(key, default)
Get(d, key, default) == IF key \in DOMAIN d THEN d[key] ELSE default

\* ascending list of a set of pids (the order Process.children reports them in)
RECURSIVE SortedSeq(_)
SortedSeq(S) ==
    IF S = {} THEN <<>>
    ELSE LET m == CHOOSE x \in S : \A y \in S : x <= y
         IN <<m>> \o SortedSeq(S \ {m})

\* [data, *child_data]
Items == <<data>> \o child_data

\* item["cpu_times"].user raises AttributeError when the value is None
RaisesAttributeError(item) ==
    item["cpu_times"] = None \/ item["memory_info"] = None

\* the results dict built for one item
Results(item) ==
    [ pid |-> item["pid"],
      type |-> IF Get(item, "is_main", FALSE) THEN "main" ELSE "child",
      elapsed_secs |-> Str(elapsed_time),
      cpu_time_user_secs |-> "cpu_times.user",
      cpu_time_sys_secs |-> "cpu_times.system",
      cpu_percent |-> item["cpu_percent"],
      threads_num |-> item["num_threads"],
      memory_rss_bytes |-> "memory_info.rss",
      memory_vms_bytes |-> "memory_info.vms",
      files_num |-> Get(item, "num_files", "-") ]

\* a variant of RowLine that renders every column of COLUMNS_DESCRIPT,
\* whatever col_headers holds
RowLine_AllColumns(item) ==
    Join([i \in 1..Len(COLUMNS_DESCRIPT) |-> Results(item)[COLUMNS_DESCRIPT[i]]],
         args.output_separator) \o <<"\n">>

\* output_separator.join(str(results[name]) for name in col_headers) + "\n"
RowLine(item) ==
    Join([i \in 1..Len(col_headers) |-> Results(item)[col_headers[i]]],
         args.output_separator) \o <<"\n">>

\* a variant of HeaderLine that names every column of COLUMNS_DESCRIPT,
\* whatever col_headers holds
HeaderLine_AllColumns == Join(COLUMNS_DESCRIPT, args.output_separator) \o <<"\n">>

\* output_separator.join(col_headers) + "\n"

HeaderLine == Join(col_headers, args.output_separator) \o <<"\n">>

---------------------------------------------------------------------------
(* Initial states: every combination of arguments, on every kind of host,  *)
(* for a pid that names a running process or no process at all.            *)

ArgSets ==
    [ max_iterations : {NoCap} \cup (0..MaxIter),
      output_stream : {None, "stream"},
      flush_output : BOOLEAN,
      headers : BOOLEAN,
      output_separator : {","},
      output_files_num : BOOLEAN,
      child_processes : BOOLEAN ]

\* cli.cmd_exec: the options that reach profile_process.  Times are in a
\* common unit; NoTimeout is timeout=None.
NoTimeout == -1
Intervals == {1, 2}
Timeouts == {NoTimeout} \cup (0..MaxIter)

\* max_iterations = None; if timeout: max_iterations = int(timeout / interval)
CmdExecCap(timeout, interval) ==
    IF timeout # NoTimeout /\ timeout # 0
      THEN timeout \div interval
      ELSE NoCap

\* the keyword arguments cmd_exec passes to profile_process
CmdExecArgs(timeout, interval, child, files_num) ==
    [ max_iterations |-> CmdExecCap(timeout, interval),
      output_stream |-> "stream",
      flush_output |-> FALSE,
      headers |-> TRUE,
      output_separator |-> ",",
      output_files_num |-> files_num,
      child_processes |-> child ]

\* profile_process called directly, not through cmd_exec
DirectCall ==
    [caller |-> "api", timeout |-> NoTimeout, interval |-> 1, pc |-> "none",
     killed |-> FALSE]

\* cmd_exec at its call of profile_process: the command has been spawned
CmdExecCall(timeout, interval) ==
    [caller |-> "cmd_exec", timeout |-> timeout, interval |-> interval,
     pc |-> "profile", killed |-> FALSE]

\* profile.profile_process has not been called
PsIdle ==
    /\ ps_args = <<>>
    /\ matching = {}
    /\ ps_pc = "none"
    /\ pinfoset = <<>>
    /\ ps_idx = 0
    /\ ps_out = <<>>
    /\ ps_flushed = 0
    /\ polls = 0
    /\ quit_calls = 0
    /\ quit_said = FALSE
    /\ ps_sleeps = 0
    /\ poll_of = <<>>

Init ==
    /\ PsIdle
    /\ \/ /\ cli = DirectCall
          /\ args \in ArgSets
          /\ target \in {"absent", "running"}
       \/ /\ \E t \in Timeouts, i \in Intervals, child \in BOOLEAN, files_num \in BOOLEAN :
                /\ cli = CmdExecCall(t, i)
                /\ args = CmdExecArgs(t, i, child, files_num)
          /\ target = "running"
    /\ seen = ""
    /\ os_name \in {"posix", "nt", "java"}
    /\ children = {}
    /\ clock = 0
    /\ pc = "setup"
    /\ outcome = "running"
    /\ col_headers = Unbound
    /\ iteration = 0
    /\ proc = Unbound
    /\ elapsed_time = 0
    /\ data = Unbound
    /\ child_data = Unbound
    /\ pending = <<>>
    /\ acc = <<>>
    /\ idx = 0
    /\ out = <<>>
    /\ flushed = 0
    /\ sleeps = 0
    /\ queried = FALSE
    /\ tick_of = <<>>
    /\ fd_failed = {}
    /\ reason = ""

---------------------------------------------------------------------------
(* profile_process, statement group by statement group *)

\* The locals of the loop body.  They are dead when the body ends (each is
\* assigned again before it is read) and when the call ends, and are
\* modelled as unbound from then on.
DropLocals ==
    /\ elapsed_time' = 0
    /\ data' = Unbound
    /\ child_data' = Unbound
    /\ pending' = <<>>
    /\ acc' = <<>>
    /\ idx' = 0

\* the call ends: by an exception that propagates, or by leaving the loop
\* (break), after which the function returns None
Finish(how, why) ==
    /\ pc' = "done"
    /\ outcome' = how
    /\ reason' = why
    /\ DropLocals

Break(why) == Finish("returned", why)

Goto(label) ==
    /\ pc' = label
    /\ outcome' = outcome
    /\ reason' = reason

\* a variant of Setup without the platform assertion
Setup_NoAssert ==
    /\ pc = "setup"
    /\ col_headers' = IF args.output_files_num
                        THEN COLUMNS_DESCRIPT
                        ELSE ListRemove(COLUMNS_DESCRIPT, "files_num")
    /\ Goto("header")
    /\ UNCHANGED <<psVars, args, os_name, cli, seen, envVars, iteration, proc, elapsed_time, data,
                   child_data, pending, acc, idx, out, flushed, sleeps, queried,
                   tick_of, fd_failed>>

\* col_headers is built; the platform assertion of output_files_num
Setup ==
    /\ pc = "setup"
    /\ IF args.output_files_num
         THEN IF POSIX \/ WINDOWS
                THEN /\ col_headers' = COLUMNS_DESCRIPT
                     /\ Goto("header")
                     /\ UNCHANGED <<elapsed_time, data, child_data, pending, acc, idx>>
                ELSE /\ col_headers' = COLUMNS_DESCRIPT
                     /\ Finish("AssertionError", "assert")
         ELSE /\ col_headers' = ListRemove(COLUMNS_DESCRIPT, "files_num")
              /\ Goto("header")
              /\ UNCHANGED <<elapsed_time, data, child_data, pending, acc, idx>>
    /\ UNCHANGED <<psVars, args, os_name, cli, seen, envVars, iteration, proc, out, flushed, sleeps,
                   queried, tick_of, fd_failed>>

\* the header line is written, and flushed when flush_output
WriteHeader ==
    /\ pc = "header"
    /\ IF args.headers /\ args.output_stream # None
         THEN /\ out' = Append(out, HeaderLine)
              /\ tick_of' = Append(tick_of, 0)
              /\ flushed' = IF args.flush_output THEN Len(out') ELSE flushed
         ELSE UNCHANGED <<out, tick_of, flushed>>
    /\ Goto("attach")
    /\ UNCHANGED <<psVars, args, os_name, cli, seen, envVars, col_headers, iteration, proc,
                   elapsed_time, data, child_data, pending, acc, idx, sleeps,
                   queried, fd_failed>>

\* iteration = 0; proc = psutil.Process(pid), which raises NoSuchProcess when
\* no process has that pid and otherwise caches the creation time
Attach ==
    /\ pc = "attach"
    /\ iteration' = 0
    /\ queried' = TRUE
    /\ IF target \in {"absent", "gone"}
         THEN /\ Finish("NoSuchProcess", "Process(pid)")
              /\ proc' = proc
         ELSE /\ proc' = [pid |-> MainPid, create_time |-> 0]
              /\ Goto("tick")
              /\ UNCHANGED <<elapsed_time, data, child_data, pending, acc, idx>>
    /\ UNCHANGED <<psVars, args, os_name, cli, seen, envVars, col_headers, out, flushed, sleeps,
                   tick_of, fd_failed>>

\* a variant of TickStart whose liveness test leaves out the zombie status
TickStart_NoZombieCheck ==
    /\ pc = "tick"
    /\ iteration' = iteration + 1
    /\ fd_failed' = {}
    /\ seen' = target
    /\ IF target = "gone"
         THEN Break("not running or zombie")
         ELSE /\ Goto("fetch_main")
              /\ elapsed_time' = clock - proc.create_time
              /\ UNCHANGED <<data, child_data, pending, acc, idx>>
    /\ UNCHANGED <<psVars, args, os_name, cli, envVars, col_headers, proc, out, flushed,
                   sleeps, queried, tick_of>>

\* a variant of TickStart whose elapsed time runs backwards as the clock
\* advances
TickStart_ElapsedBackwards ==
    /\ pc = "tick"
    /\ iteration' = iteration + 1
    /\ fd_failed' = {}
    /\ seen' = target
    /\ IF target # "running"
         THEN Break("not running or zombie")
         ELSE /\ Goto("fetch_main")
              /\ elapsed_time' = MaxClock - (clock - proc.create_time)
              /\ UNCHANGED <<data, child_data, pending, acc, idx>>
    /\ UNCHANGED <<psVars, args, os_name, cli, envVars, col_headers, proc, out, flushed,
                   sleeps, queried, tick_of>>

\* top of the loop: iteration += 1, elapsed_time, and the liveness test
\* (not is_running() or status() == "zombie" raises NoSuchProcess: break)
TickStart ==
    /\ pc = "tick"
    /\ iteration' = iteration + 1
    /\ fd_failed' = {}
    /\ seen' = target
    /\ IF target # "running"
         THEN Break("not running or zombie")
         ELSE /\ Goto("fetch_main")
              /\ elapsed_time' = clock - proc.create_time
              /\ UNCHANGED <<data, child_data, pending, acc, idx>>
    /\ UNCHANGED <<psVars, args, os_name, cli, envVars, col_headers, proc, out, flushed,
                   sleeps, queried, tick_of>>

\* data = proc.as_dict(attrs); data["is_main"] = True.  as_dict lets
\* NoSuchProcess through when the target went away after the liveness test.
FetchMain ==
    /\ pc = "fetch_main"
    /\ IF target = "gone"
         THEN Break("as_dict")
         ELSE /\ \E denied \in DeniedSets :
                    data' = AsDict(proc.pid, denied) @@ ("is_main" :> TRUE)
              /\ IF args.child_processes
                   THEN /\ Goto("children")
                        /\ child_data' = child_data
                   ELSE /\ Goto("files")
                        /\ child_data' = <<>>
              /\ UNCHANGED <<elapsed_time, pending, acc, idx>>
    /\ UNCHANGED <<psVars, args, os_name, cli, seen, envVars, col_headers, iteration, proc, out,
                   flushed, sleeps, queried, tick_of, fd_failed>>

\* proc.children(recursive=True): the descendants alive now
EnumChildren ==
    /\ pc = "children"
    /\ IF target = "gone"
         THEN Break("children")
         ELSE /\ acc' = <<>>
              /\ pending' = SortedSeq(children)
              /\ IF children = {}
                   THEN /\ child_data' = <<>>
                        /\ Goto("files")
                   ELSE /\ child_data' = child_data
                        /\ Goto("fetch_child")
              /\ UNCHANGED <<elapsed_time, data, idx>>
    /\ UNCHANGED <<psVars, args, os_name, cli, seen, envVars, col_headers, iteration, proc, out,
                   flushed, sleeps, queried, tick_of, fd_failed>>

\* one p.as_dict(attrs) of the list comprehension: NoSuchProcess when p has
\* exited since it was enumerated, which the enclosing try turns into break
FetchChild ==
    /\ pc = "fetch_child"
    /\ pending # <<>>
    /\ IF Head(pending) \notin children
         THEN Break("child as_dict")
         ELSE /\ \E denied \in DeniedSets :
                    acc' = Append(acc, AsDict(Head(pending), denied))
              /\ pending' = Tail(pending)
              /\ IF pending' = <<>>
                   THEN /\ child_data' = acc'
                        /\ Goto("files")
                   ELSE /\ child_data' = child_data
                        /\ Goto("fetch_child")
              /\ UNCHANGED <<elapsed_time, data, idx>>
    /\ UNCHANGED <<psVars, args, os_name, cli, seen, envVars, col_headers, iteration, proc, out,
                   flushed, sleeps, queried, tick_of, fd_failed>>

\* a variant of FilesNum that lets the failure of the count query propagate
FilesNum_Propagates ==
    /\ pc = "files"
    /\ IF args.output_files_num
         THEN \E result \in {"ok", "NoSuchProcess", "AccessDenied"} :
                IF result = "ok"
                  THEN /\ data' = IF POSIX
                                    THEN ("num_files" :> "num_fds") @@ data
                                    ELSE IF WINDOWS
                                    THEN ("num_files" :> "num_handles") @@ data
                                    ELSE data
                       /\ fd_failed' = fd_failed
                       /\ Goto("check_cpu")
                       /\ UNCHANGED <<elapsed_time, child_data, pending, acc, idx>>
                  ELSE /\ fd_failed' = fd_failed \cup {proc.pid}
                       /\ Finish(result, "num_files")
         ELSE /\ UNCHANGED <<data, fd_failed>>
              /\ Goto("check_cpu")
              /\ UNCHANGED <<elapsed_time, child_data, pending, acc, idx>>
    /\ UNCHANGED <<psVars, args, os_name, cli, seen, envVars, col_headers, iteration, proc, out,
                   flushed, sleeps, queried, tick_of>>

\* if output_files_num: data["num_files"] = proc.num_fds() / num_handles(),
\* NoSuchProcess and AccessDenied being swallowed
FilesNum ==
    /\ pc = "files"
    /\ IF args.output_files_num
         THEN \E result \in {"ok", "NoSuchProcess", "AccessDenied"} :
                IF result = "ok"
                  THEN /\ data' = IF POSIX
                                    THEN ("num_files" :> "num_fds") @@ data
                                    ELSE IF WINDOWS
                                    THEN ("num_files" :> "num_handles") @@ data
                                    ELSE data
                       /\ fd_failed' = fd_failed
                  ELSE /\ data' = data
                       /\ fd_failed' = fd_failed \cup {proc.pid}
         ELSE UNCHANGED <<data, fd_failed>>
    /\ Goto("check_cpu")
    /\ UNCHANGED <<psVars, args, os_name, cli, seen, envVars, col_headers, iteration, proc,
                   elapsed_time, child_data, pending, acc, idx, out, flushed,
                   sleeps, queried, tick_of>>

\* a variant of CheckCpu without the cpu_percent test
CheckCpu_NoBreak ==
    /\ pc = "check_cpu"
    /\ IF args.output_stream # None
         THEN /\ Goto("write")
              /\ idx' = 1
         ELSE /\ Goto("check_cap")
              /\ idx' = idx
    /\ UNCHANGED <<elapsed_time, data, child_data, pending, acc>>
    /\ UNCHANGED <<psVars, args, os_name, cli, seen, envVars, col_headers, iteration, proc, out,
                   flushed, sleeps, queried, tick_of, fd_failed>>

\* if data is None or data["cpu_percent"] is None: break
CheckCpu ==
    /\ pc = "check_cpu"
    /\ IF data["cpu_percent"] = None
         THEN Break("cpu_percent is None")
         ELSE /\ IF args.output_stream # None
                   THEN /\ Goto("write")
                        /\ idx' = 1
                   ELSE /\ Goto("check_cap")
                        /\ idx' = idx
              /\ UNCHANGED <<elapsed_time, data, child_data, pending, acc>>
    /\ UNCHANGED <<psVars, args, os_name, cli, seen, envVars, col_headers, iteration, proc, out,
                   flushed, sleeps, queried, tick_of, fd_failed>>

\* one pass of the loop over [data, *child_data]: the results dict is built
\* and the row written; after the last item the stream is flushed when
\* flush_output
WriteRow ==
    /\ pc = "write"
    /\ idx \in 1..Len(Items)
    /\ IF RaisesAttributeError(Items[idx])
         THEN /\ Finish("AttributeError", "results")
              /\ UNCHANGED <<out, flushed, tick_of>>
         ELSE /\ out' = Append(out, RowLine(Items[idx]))
              /\ tick_of' = Append(tick_of, iteration)
              /\ idx' = idx + 1
              /\ IF idx = Len(Items)
                   THEN /\ Goto("check_cap")
                        /\ flushed' = IF args.flush_output THEN Len(out') ELSE flushed
                   ELSE /\ Goto("write")
                        /\ flushed' = flushed
              /\ UNCHANGED <<elapsed_time, data, child_data, pending, acc>>
    /\ UNCHANGED <<psVars, args, os_name, cli, seen, envVars, col_headers, iteration, proc, sleeps,
                   queried, fd_failed>>

\* a variant of CheckCap that sleeps before it raises
CheckCap_SleepsBeforeRaise ==
    /\ pc = "check_cap"
    /\ IF args.max_iterations # NoCap /\ iteration >= args.max_iterations
         THEN /\ Finish("TimeoutError", "max_iterations")
              /\ sleeps' = sleeps + 1
         ELSE /\ Goto("sleep")
              /\ DropLocals
              /\ sleeps' = sleeps
    /\ UNCHANGED <<psVars, args, os_name, cli, seen, envVars, col_headers, iteration, proc, out,
                   flushed, queried, tick_of, fd_failed>>

\* a variant of CheckCap that kills the target when the cap is reached
CheckCap_KillsOnTimeout ==
    /\ pc = "check_cap"
    /\ IF args.max_iterations # NoCap /\ iteration >= args.max_iterations
         THEN /\ Finish("TimeoutError", "max_iterations")
              /\ target' = IF target = "running" THEN "zombie" ELSE target
              /\ children' = {}
         ELSE /\ Goto("sleep")
              /\ DropLocals
              /\ UNCHANGED <<target, children>>
    /\ UNCHANGED <<psVars, args, os_name, cli, seen, clock, col_headers, iteration, proc, out,
                   flushed, sleeps, queried, tick_of, fd_failed>>

\* if max_iterations is not None and iteration >= max_iterations: raise
CheckCap ==
    /\ pc = "check_cap"
    /\ IF args.max_iterations # NoCap /\ iteration >= args.max_iterations
         THEN Finish("TimeoutError", "max_iterations")
         ELSE /\ Goto("sleep")
              /\ DropLocals
    /\ UNCHANGED <<psVars, args, os_name, cli, seen, envVars, col_headers, iteration, proc, out,
                   flushed, sleeps, queried, tick_of, fd_failed>>

\* time.sleep(poll_interval), then back to the top of the loop
Sleep ==
    /\ pc = "sleep"
    /\ iteration < MaxIter
    /\ sleeps' = sleeps + 1
    /\ Goto("tick")
    /\ UNCHANGED <<psVars, args, os_name, cli, seen, envVars, col_headers, iteration, proc,
                   elapsed_time, data, child_data, pending, acc, idx, out, flushed,
                   queried, tick_of, fd_failed>>

---------------------------------------------------------------------------
(* The operating system, while the call is in progress.  The program sees  *)
(* the OS only where it queries it, so an OS event is modelled at the      *)
(* positions from which the next query can see it: an event that happens   *)
(* elsewhere is the same event happening just before that next query.      *)

\* positions followed by a query of the target itself (Process(pid),
\* is_running/status, as_dict, children)
TargetObserved == pc \in {"attach", "tick", "fetch_main", "children"}

\* positions followed by the enumeration of the children, or by the fetch of
\* an enumerated child
ChildrenEnumerated == pc = "children"
ChildrenFetched == pc \in {"children", "fetch_child"}

\* positions where time passes before time.time() is read again: the sleep,
\* and the writes of a tick's rows
TimePasses == pc \in {"sleep", "write"}

\* the target exits and becomes a zombie; its children are re-parented
TargetExits ==
    /\ TargetObserved
    /\ target = "running"
    /\ target' = "zombie"
    /\ children' = {}
    /\ UNCHANGED <<psVars, args, os_name, cli, clock, progVars>>

\* the zombie is reaped by its parent: the pid no longer names a process.
\* A command spawned by cmd_exec has cmd_exec as its parent, which does not
\* wait for it while it profiles, so that target stays a zombie.
TargetReaped ==
    /\ TargetObserved
    /\ cli.caller = "api"
    /\ target = "zombie"
    /\ target' = "gone"
    /\ UNCHANGED <<psVars, args, os_name, cli, children, clock, progVars>>

ChildSpawns ==
    /\ ChildrenEnumerated
    /\ target = "running"
    /\ \E c \in ChildPids \ children : children' = children \cup {c}
    /\ UNCHANGED <<psVars, args, os_name, cli, target, clock, progVars>>

ChildExits ==
    /\ ChildrenFetched
    /\ \E c \in children : children' = children \ {c}
    /\ UNCHANGED <<psVars, args, os_name, cli, target, clock, progVars>>

ClockTick ==
    /\ TimePasses
    /\ clock < MaxClock
    /\ clock' = clock + 1
    /\ UNCHANGED <<psVars, args, os_name, cli, target, children, progVars>>

---------------------------------------------------------------------------
(* cli.cmd_exec, from the end of its profile_process call *)

\* except TimeoutError: report; proc.kill().  Any other exception leaves the
\* with-blocks and cmd_exec, and proc.kill() is not reached.
CmdExecAfterProfile ==
    /\ cli.pc = "profile"
    /\ pc = "done"
    /\ IF outcome \in {"returned", "TimeoutError"}
         THEN /\ cli' = [cli EXCEPT !.pc = "plot", !.killed = TRUE]
              /\ target' = IF target = "running" THEN "zombie" ELSE target
              /\ children' = IF target = "running" THEN {} ELSE children
         ELSE /\ cli' = [cli EXCEPT !.pc = "raised"]
              /\ UNCHANGED <<target, children>>
    /\ UNCHANGED <<psVars, args, os_name, clock, progVars>>

---------------------------------------------------------------------------

Next ==
    \/ Setup
    \/ WriteHeader
    \/ Attach
    \/ TickStart
    \/ FetchMain
    \/ EnumChildren
    \/ FetchChild
    \/ FilesNum
    \/ CheckCpu
    \/ WriteRow
    \/ CheckCap
    \/ Sleep
    \/ TargetExits
    \/ TargetReaped
    \/ ChildSpawns
    \/ ChildExits
    \/ ClockTick
    \/ CmdExecAfterProfile

Spec == Init /\ [][Next]_vars

TypeOK ==
    /\ pc \in {"setup", "header", "attach", "tick", "fetch_main", "children",
               "fetch_child", "files", "check_cpu", "write", "check_cap", "sleep",
               "done"}
    /\ outcome \in {"running", "returned", "TimeoutError", "NoSuchProcess",
                    "AssertionError", "AttributeError"}
    /\ (pc = "done") <=> (outcome # "running")
    /\ Len(tick_of) = Len(out)
    /\ flushed \in 0..Len(out)

---------------------------------------------------------------------------
(* Reading the written stream back *)

\* s.split(sep): the runs of tokens between separators
RECURSIVE Split(_, _)
Split(s, sep) ==
    IF s = <<>> THEN << <<>> >>
    ELSE LET rest == Split(Tail(s), sep)
         IN IF Head(s) = sep
              THEN << <<>> >> \o rest
              ELSE << <<Head(s)>> \o Head(rest) >> \o Tail(rest)

\* the fields of one written line, its newline dropped
LineFields(line) == Split(SubSeq(line, 1, Len(line) - 1), args.output_separator)

\* the field of a written line under column name
ColIndex(name) == CHOOSE k \in 1..Len(col_headers) : col_headers[k] = name
Field(line, name) == LineFields(line)[ColIndex(name)]

\* positions in out of the rows written by tick t
RowsOfTick(t) == {i \in 1..Len(out) : tick_of[i] = t}

\* the ticks that have written rows
TicksWritten == {tick_of[i] : i \in 1..Len(out)} \ {0}

\* the column list the arguments call for
NineColumns ==
    << "type", "pid", "elapsed_secs", "cpu_time_user_secs", "cpu_time_sys_secs",
       "cpu_percent", "threads_num", "memory_rss_bytes", "memory_vms_bytes" >>
ExpectedColumns ==
    IF args.output_files_num THEN NineColumns \o <<"files_num">> ELSE NineColumns

\* the texts a data row may carry under each column
ColumnValues(name) ==
    CASE name = "type" -> {"main", "child"}
      [] name = "pid" -> {Str(p) : p \in {MainPid} \cup ChildPids}
      [] name = "elapsed_secs" -> {Str(t) : t \in 0..MaxClock}
      [] name = "cpu_time_user_secs" -> {"cpu_times.user"}
      [] name = "cpu_time_sys_secs" -> {"cpu_times.system"}
      [] name = "cpu_percent" -> {"cpu_percent", None}
      [] name = "threads_num" -> {"num_threads", None}
      [] name = "memory_rss_bytes" -> {"memory_info.rss"}
      [] name = "memory_vms_bytes" -> {"memory_info.vms"}
      [] name = "files_num" -> {"num_fds", "num_handles", "-"}

---------------------------------------------------------------------------
(* Claims *)

\* C1: with a cap N >= 1, a target that is running throughout and a main
\* cpu_percent that is available on every tick, the call ends with
\* TimeoutError after writing the rows of exactly the ticks 1..N; it never
\* returns normally and never writes rows of a tick beyond N.
C1_CapTicksThenTimeout ==
    /\ (args.max_iterations >= 1) => \A i \in 1..Len(out) : tick_of[i] <= args.max_iterations
    /\ ( /\ pc = "done"
         /\ args.max_iterations >= 1
         /\ target = "running"
         /\ outcome # "AssertionError"
         /\ reason # "cpu_percent is None" )
       => /\ outcome = "TimeoutError"
          /\ iteration = args.max_iterations
          /\ (args.output_stream # None => TicksWritten = 1..args.max_iterations)

\* C2: when an enumerated descendant has exited before its as_dict is taken,
\* the call does not stop: the step that meets the vanished child leaves the
\* call running and inside the tick.
C2_VanishedChildSkipped ==
    [][ ( /\ pc = "fetch_child"
          /\ pending # <<>>
          /\ Head(pending) \notin children
          /\ pc' # "fetch_child" )
        => (pc' = "files" /\ outcome' = "running") ]_vars

\* C3: when the pid names no process the call fails with NoSuchProcess and
\* nothing, neither header nor row, has been written to the stream.
C3_NothingWrittenWhenNotFound ==
    (outcome = "NoSuchProcess") => (out = <<>>)

\* C4: the column list is decided by the set-up, before anything is
\* written: from then on it is the one the arguments call for (ten columns
\* with output_files_num, else the nine without files_num) and no step
\* changes it; every line is appended to the stream and never altered, the
\* header with exactly the column names and every data row with, field by
\* field, a value of the column of the same position.
C4_ColumnsFixed ==
    [][ /\ (pc = "setup") => (out = <<>> /\ out' = <<>>)
        /\ (pc # "setup") => (col_headers = ExpectedColumns /\ col_headers' = col_headers)
        /\ (out' # out)
           => /\ Len(out') = Len(out) + 1
              /\ SubSeq(out', 1, Len(out)) = out
              /\ \A f \in {LineFields(out'[Len(out')])} :
                    /\ Len(f) = Len(col_headers)
                    /\ \A k \in 1..Len(f) :
                         IF tick_of'[Len(out')] = 0
                           THEN f[k] = <<col_headers[k]>>
                           ELSE /\ Len(f[k]) = 1
                                /\ f[k][1] \in ColumnValues(col_headers[k])
      ]_vars

\* C4 witness: with output_files_num, a header of ten names and rows of a
\* main and a child process are on the stream.
C4_Witness ==
    /\ args.output_files_num
    /\ Len(out) >= 3
    /\ tick_of[1] = 0
    /\ \E i \in 1..Len(out) : tick_of[i] > 0 /\ Field(out[i], "type") = <<"child">>

\* C5: a tick that finds the target not running, or a zombie, ends the call
\* by a normal return: no exception, no row of that tick, no further sleep,
\* and the lines written before are left as they are.
C5_CleanStop ==
    [][ ( /\ pc = "tick"
          /\ target # "running"
          /\ pc' # "tick" )
        => ( /\ pc' = "done"
             /\ outcome' = "returned"
             /\ out' = out
             /\ tick_of' = tick_of
             /\ sleeps' = sleeps
             /\ \A i \in 1..Len(out') : tick_of'[i] # iteration' ) ]_vars

\* C5 witness: the second tick found the target gone after the first tick
\* had written its rows.
C5_Witness ==
    /\ pc = "done"
    /\ reason = "not running or zombie"
    /\ outcome = "returned"
    /\ iteration = 2
    /\ RowsOfTick(1) # {}

\* C6: with output_files_num, every row of a tick carries the count of its
\* process unless the count query for that process failed: the placeholder
\* appears only in rows of processes whose query failed.
C6_FilesNumForEveryRow ==
    (args.output_files_num /\ iteration > 0)
    => \A i \in RowsOfTick(iteration) :
         (Field(out[i], "files_num") = <<"-">>)
         => \E p \in fd_failed : Field(out[i], "pid") = <<Str(p)>>

C8_UnsupportedPlatformFailsFirst ==
    /\ (outcome = "AssertionError")
       => ( /\ args.output_files_num
            /\ ~(POSIX \/ WINDOWS)
            /\ ~queried
            /\ iteration = 0
            /\ out = <<>> )
    /\ (args.output_files_num /\ ~(POSIX \/ WINDOWS) /\ pc # "setup")
       => (pc = "done" /\ outcome = "AssertionError")

\* C8 witness: the assertion has failed in a call that asked for headers on
\* a stream.
C8_Witness ==
    /\ outcome = "AssertionError"
    /\ args.headers
    /\ args.output_stream # None
    /\ target = "running"

\* C9: a tick that writes rows writes, by the time its write loop is left,
\* exactly one main row, first, followed by one child row per descendant
\* enumerated in the tick, all with the same elapsed_secs.
C9_MainThenChildren ==
    [][ (pc = "write" /\ pc' # "write")
        => LET rows == {i \in 1..Len(out') : tick_of'[i] = iteration}
               first == CHOOSE i \in rows : \A j \in rows : i <= j
           IN /\ Cardinality(rows) = 1 + Len(child_data)
              /\ Field(out'[first], "type") = <<"main">>
              /\ \A i \in rows \ {first} : Field(out'[i], "type") = <<"child">>
              /\ \A i \in rows :
                   Field(out'[i], "elapsed_secs") = Field(out'[first], "elapsed_secs")
      ]_vars

\* C10: when the main process's cpu_percent is None the call ends in that
\* tick by a normal return: no row of the tick is written (child rows
\* included) and no TimeoutError is raised, whatever the cap.
C10_CpuPercentNoneStops ==
    [][ (pc = "check_cpu" /\ data["cpu_percent"] = None)
        => ( /\ pc' = "done"
             /\ outcome' = "returned"
             /\ out' = out
             /\ RowsOfTick(iteration) = {}
             /\ sleeps' = sleeps ) ]_vars

\* C10 witness: the call returned because cpu_percent was None, in the tick
\* whose number equals the cap, with a stream and a live child.
C10_Witness ==
    /\ pc = "done"
    /\ outcome = "returned"
    /\ reason = "cpu_percent is None"
    /\ args.max_iterations = iteration
    /\ args.output_stream # None
    /\ args.child_processes
    /\ children # {}

\* C11: fetching a descendant whose metrics are denied (its dict holds None
\* for cpu_times, num_threads and memory_info) does not end the session: in
\* the write loop of a tick that holds such a child no error is raised.
C11_DeniedChildNotFatal ==
    [][ ( /\ pc = "write"
          /\ \E k \in 1..Len(child_data) : child_data[k]["cpu_times"] = None )
        => outcome' = "running" ]_vars

\* C12: TimeoutError is raised only by the cap test that ends a tick whose
\* liveness test saw the target running (not exited, not a zombie) and whose
\* rows are all on the stream; and a tick whose number equals the cap and
\* that finds the target exited or a zombie ends by a normal return.
C12_TimeoutOnlyAfterLiveTick ==
    [][ /\ (outcome = "running" /\ outcome' = "TimeoutError")
           => ( /\ pc = "check_cap"
                /\ seen = "running"
                /\ args.max_iterations # NoCap
                /\ iteration >= args.max_iterations
                /\ iteration' = iteration
                /\ out' = out
                /\ args.output_stream # None
                   => Cardinality(RowsOfTick(iteration)) = Len(Items) )
        /\ ( /\ pc = "tick"
             /\ pc' # "tick"
             /\ target # "running"
             /\ iteration' = args.max_iterations )
           => (pc' = "done" /\ outcome' = "returned") ]_vars

\* C12 witness: the second tick saw the target running, wrote its rows and
\* reached the cap of two.
C12_Witness ==
    /\ outcome = "TimeoutError"
    /\ args.max_iterations = 2
    /\ iteration = 2
    /\ seen = "running"
    /\ RowsOfTick(2) # {}

\* int() of the text of a small natural, as a reader of the stream takes it
ParseNat(field) == CHOOSE n \in 0..9 : <<Str(n)>> = field

\* the elapsed_secs value of a written data row
ElapsedOf(line) == ParseNat(Field(line, "elapsed_secs"))

\* C13: the stream only grows at its end, and every data row written carries
\* an elapsed_secs value greater than or equal to that of the data row
\* written just before it; so along the stream the values never decrease,
\* and a tick's value is at least the value of every earlier tick.
C13_ElapsedNonDecreasing ==
    [][ /\ \/ out' = out
           \/ Len(out') = Len(out) + 1 /\ SubSeq(out', 1, Len(out)) = out
        /\ ( /\ Len(out') = Len(out) + 1
             /\ Len(out) >= 1
             /\ tick_of[Len(out)] > 0
             /\ tick_of'[Len(out')] > 0 )
           => ElapsedOf(out[Len(out)]) <= ElapsedOf(out'[Len(out')]) ]_vars

\* C13 witness: the rows of two ticks are on the stream, and the second
\* tick's elapsed_secs is strictly greater than the first's.
C13_Witness ==
    \E i, j \in 1..Len(out) :
        /\ tick_of[i] = 1
        /\ tick_of[j] = 2
        /\ ElapsedOf(out[i]) < ElapsedOf(out[j])

\* the header line the arguments call for: the documented column names in
\* their order, joined by the separator
ExpectedHeader == Join(ExpectedColumns, args.output_separator) \o <<"\n">>

\* the stream holds the header line as its first line and nowhere else
HeaderOnceAndFirst ==
    /\ Len(out) >= 1
    /\ out[1] = ExpectedHeader
    /\ \A i \in 2..Len(out) : out[i] # ExpectedHeader

\* C14 as stated: with headers and a stream, once the call is past its
\* header step the stream starts with the header line (ten names with
\* output_files_num, the nine without files_num otherwise) and holds it
\* once; with headers=False no line of the stream is a header line.
C14_HeaderOnceFirst_AsStated ==
    /\ (args.headers /\ args.output_stream # None /\ pc \notin {"setup", "header"})
       => HeaderOnceAndFirst
    /\ ~args.headers => \A i \in 1..Len(out) : out[i] # ExpectedHeader

\* C14 amended: the same, for every call whose platform assertion passed;
\* a call that fails the assertion has written nothing.
C14_HeaderOnceFirst ==
    /\ ( /\ args.headers
         /\ args.output_stream # None
         /\ pc \notin {"setup", "header"}
         /\ outcome # "AssertionError" )
       => HeaderOnceAndFirst
    /\ outcome = "AssertionError" => out = <<>>
    /\ ~args.headers => \A i \in 1..Len(out) : out[i] # ExpectedHeader

\* C14 witness: without output_files_num, the nine-name header is followed
\* by the rows of two ticks.
C14_Witness ==
    /\ args.headers
    /\ ~args.output_files_num
    /\ Len(out) >= 3
    /\ out[1] = ExpectedHeader
    /\ tick_of[Len(out)] = 2

\* C15: the call sleeps only in its sleep step, once per step, after a tick
\* that wrote its rows and that neither reached the cap nor stopped the
\* session; so the number of sleeps is the number of ticks started, less one
\* from the moment a tick is under way, and a run ended by a cap N >= 1 has
\* slept exactly N - 1 times.
C15_SleepBetweenTicks ==
    [][ /\ sleeps' # sleeps
           => ( /\ pc = "sleep"
                /\ pc' = "tick"
                /\ sleeps' = sleeps + 1
                /\ outcome = "running"
                /\ iteration >= 1
                /\ out' = out
                /\ args.output_stream # None => RowsOfTick(iteration) # {} )
        /\ sleeps' = IF pc' = "tick" \/ iteration' = 0
                       THEN iteration'
                       ELSE iteration' - 1
        /\ (outcome' = "TimeoutError" /\ args.max_iterations >= 1)
           => sleeps' = args.max_iterations - 1 ]_vars

\* C15 witness: a run ended by the cap of two, after two ticks of rows and
\* one sleep.
C15_Witness ==
    /\ outcome = "TimeoutError"
    /\ args.max_iterations = 2
    /\ sleeps = 1
    /\ RowsOfTick(1) # {}
    /\ RowsOfTick(2) # {}

\* C16: the call ends only for one of: the target is gone or a zombie, the
\* main cpu_percent is unavailable, the cap is reached, or an error
\* propagates; and with a cap N >= 1 no more than N ticks are started.
C16_EndsOnlyForListedReasons ==
    [][ /\ (outcome = "running" /\ outcome' # "running")
           => \/ outcome' = "returned" /\ target # "running"
              \/ /\ outcome' = "returned"
                 /\ pc = "check_cpu"
                 /\ data["cpu_percent"] = None
              \/ /\ outcome' = "TimeoutError"
                 /\ args.max_iterations # NoCap
                 /\ iteration >= args.max_iterations
              \/ outcome' \in {"NoSuchProcess", "AssertionError", "AttributeError"}
        /\ args.max_iterations >= 1 => iteration' <= args.max_iterations ]_vars

\* C17: no step of profile_process, on any path, changes the state of the
\* target process or the set of its live descendants: they change only by
\* steps of the operating system and of the caller.
C17_OnlyObserves ==
    [][ progVars' # progVars => (target' = target /\ children' = children) ]_vars

\* C17 witness: the call has run two ticks and ended at the cap, and the
\* target and a descendant are still running.
C17_Witness ==
    /\ outcome = "TimeoutError"
    /\ iteration = 2
    /\ target = "running"
    /\ children # {}

\* C18: with flush_output, every write finds all earlier writes flushed: no
\* line is written to the stream while a line written before it is still
\* unflushed.
C18_FlushAfterEveryWrite ==
    [][ (args.flush_output /\ Len(out') > Len(out)) => flushed = Len(out) ]_vars

\* C19: on a POSIX or Windows host, whichever way the profiling call of
\* cmd_exec ends while the spawned command is running, cmd_exec kills the
\* command as it leaves the call: the command is not left running.
C19_CommandKilledAfterProfiling ==
    [][ ( /\ cli.pc = "profile"
          /\ cli'.pc # "profile"
          /\ POSIX \/ WINDOWS
          /\ target = "running" )
        => (cli'.killed /\ target' # "running") ]_vars

\* C20: in a run of cmd_exec the cap handed to profile_process is
\* floor(timeout / interval) when a (nonzero) timeout is given and no cap
\* when none is given; and for every such cap N, N = 0 included, the rows on
\* the stream are rows of at most the ticks 1..N.
C20_CapFromTimeout ==
    cli.caller = "cmd_exec"
    => /\ cli.timeout = NoTimeout => args.max_iterations = NoCap
       /\ cli.timeout >= 1 => args.max_iterations = cli.timeout \div cli.interval
       /\ args.max_iterations # NoCap => TicksWritten \subseteq 1..args.max_iterations

---------------------------------------------------------------------------
(* profile.profile_process: the ps-based profiler.  debug_level,           *)
(* align_output and show_command are at their defaults (0, False, False),  *)
(* so nothing goes to debug_stream and the columns are the nine base ones. *)

MaxPolls == 3      \* a run is cut after MaxPolls polls
PsPids == {1, 2}   \* pids of the processes whose command matches the pattern

PsArgSets ==
    [ process : {"pid", "pattern"},     \* the int MainPid, or a compiled regex
      quit_if_none : BOOLEAN,
      quit_poll_func : {None, "func"},
      output_stream : {None, "stream"},
      flush_output : BOOLEAN,
      headers : BOOLEAN,
      output_separator : {","} ]

\* api.profile_process and cli.cmd_exec are not in use
ApiIdle ==
    /\ cli = DirectCall
    /\ args = <<>>
    /\ os_name = "posix"
    /\ target = "absent"
    /\ children = {}
    /\ clock = 0
    /\ pc = "none"
    /\ outcome = "running"
    /\ col_headers = Unbound
    /\ iteration = 0
    /\ proc = Unbound
    /\ elapsed_time = 0
    /\ data = Unbound
    /\ child_data = Unbound
    /\ pending = <<>>
    /\ acc = <<>>
    /\ idx = 0
    /\ out = <<>>
    /\ flushed = 0
    /\ sleeps = 0
    /\ queried = FALSE
    /\ tick_of = <<>>
    /\ fd_failed = {}
    /\ reason = ""
    /\ seen = ""

apiVars == <<args, os_name, envVars, progVars, cli>>

InitPs ==
    /\ ApiIdle
    /\ ps_args \in PsArgSets
    /\ matching \in SUBSET PsPids
    /\ ps_pc = "header"
    /\ pinfoset = <<>>
    /\ ps_idx = 0
    /\ ps_out = <<>>
    /\ ps_flushed = 0
    /\ polls = 0
    /\ quit_calls = 0
    /\ quit_said = FALSE
    /\ ps_sleeps = 0
    /\ poll_of = <<>>

\* col_headers of profile.profile_process
PsColHeaders ==
    <<"PID", "DATE", "TIME", "ELAPSED", "CPU", "MEM", "RSS", "VSIZE", "CMD">>

\* output_separator.join(result_fields) % pinfo, and the newline
PsResultLine(pinfo) ==
    Join(<<pinfo.pid, "poll_date", "poll_time", "etime", "%cpu", "%mem", "rss",
           "vsz", "command">>, ps_args.output_separator) \o <<"\n">>

\* poll_process: the records of the ps rows that should_record accepts (the
\* row of pid `process`, or every row whose command matches the pattern), in
\* the order ps lists them
poll_process ==
    LET recorded == IF ps_args.process = "pattern"
                      THEN matching
                      ELSE matching \cap {MainPid}
        pids == SortedSeq(recorded)
    IN [i \in 1..Len(pids) |-> [pid |-> Str(pids[i])]]

\* if headers and output_stream is not None: write the header, flush
PsWriteHeader ==
    /\ ps_pc = "header"
    /\ IF ps_args.headers /\ ps_args.output_stream # None
         THEN /\ ps_out' = Append(ps_out,
                     Join(PsColHeaders, ps_args.output_separator) \o <<"\n">>)
              /\ poll_of' = Append(poll_of, 0)
              /\ ps_flushed' = IF ps_args.flush_output THEN Len(ps_out') ELSE ps_flushed
         ELSE UNCHANGED <<ps_out, poll_of, ps_flushed>>
    /\ ps_pc' = "poll"
    /\ UNCHANGED <<ps_args, matching, pinfoset, ps_idx, polls, quit_calls, quit_said,
                   ps_sleeps, apiVars>>

\* top of the loop: pinfoset = poll_process(...)
PsPoll ==
    /\ ps_pc = "poll"
    /\ pinfoset' = poll_process
    /\ polls' = polls + 1
    /\ IF ps_args.output_stream # None /\ pinfoset' # <<>>
         THEN ps_pc' = "write" /\ ps_idx' = 1
         ELSE ps_pc' = "quit_poll" /\ ps_idx' = ps_idx
    /\ UNCHANGED <<ps_args, matching, ps_out, ps_flushed, quit_calls, quit_said,
                   ps_sleeps, poll_of, apiVars>>

\* one pass of the loop over pinfoset: the row is written, and flushed when
\* flush_output
PsWriteRow ==
    /\ ps_pc = "write"
    /\ ps_idx \in 1..Len(pinfoset)
    /\ ps_out' = Append(ps_out, PsResultLine(pinfoset[ps_idx]))
    /\ poll_of' = Append(poll_of, polls)
    /\ ps_flushed' = IF ps_args.flush_output THEN Len(ps_out') ELSE ps_flushed
    /\ ps_idx' = ps_idx + 1
    /\ ps_pc' = IF ps_idx = Len(pinfoset) THEN "quit_poll" ELSE "write"
    /\ UNCHANGED <<ps_args, matching, pinfoset, polls, quit_calls, quit_said,
                   ps_sleeps, apiVars>>

\* a variant of PsQuitPoll that goes on after the predicate returned True
PsQuitPoll_Ignored ==
    /\ ps_pc = "quit_poll"
    /\ IF ps_args.quit_poll_func # None
         THEN \E answer \in BOOLEAN :
                /\ quit_calls' = quit_calls + 1
                /\ quit_said' = answer
                /\ ps_pc' = "quit_none"
         ELSE /\ ps_pc' = "quit_none"
              /\ UNCHANGED <<quit_calls, quit_said>>
    /\ UNCHANGED <<ps_args, matching, pinfoset, ps_idx, ps_out, ps_flushed, polls,
                   ps_sleeps, poll_of, apiVars>>

\* if quit_poll_func is not None and quit_poll_func(): break
\* (the predicate is the caller's: it may return either value)
PsQuitPoll ==
    /\ ps_pc = "quit_poll"
    /\ IF ps_args.quit_poll_func # None
         THEN \E answer \in BOOLEAN :
                /\ quit_calls' = quit_calls + 1
                /\ quit_said' = answer
                /\ ps_pc' = IF answer THEN "done" ELSE "quit_none"
         ELSE /\ ps_pc' = "quit_none"
              /\ UNCHANGED <<quit_calls, quit_said>>
    /\ UNCHANGED <<ps_args, matching, pinfoset, ps_idx, ps_out, ps_flushed, polls,
                   ps_sleeps, poll_of, apiVars>>

\* a variant of PsQuitIfNone that never breaks
PsQuitIfNone_NoBreak ==
    /\ ps_pc = "quit_none"
    /\ ps_pc' = "sleep"
    /\ UNCHANGED <<ps_args, matching, pinfoset, ps_idx, ps_out, ps_flushed, polls,
                   quit_calls, quit_said, ps_sleeps, poll_of, apiVars>>

\* if len(pinfoset) == 0 and quit_if_none: break
PsQuitIfNone ==
    /\ ps_pc = "quit_none"
    /\ ps_pc' = IF Len(pinfoset) = 0 /\ ps_args.quit_if_none THEN "done" ELSE "sleep"
    /\ UNCHANGED <<ps_args, matching, pinfoset, ps_idx, ps_out, ps_flushed, polls,
                   quit_calls, quit_said, ps_sleeps, poll_of, apiVars>>

\* time.sleep(poll_interval), then back to the top of the loop
PsSleep ==
    /\ ps_pc = "sleep"
    /\ polls < MaxPolls
    /\ ps_sleeps' = ps_sleeps + 1
    /\ ps_pc' = "poll"
    /\ UNCHANGED <<ps_args, matching, pinfoset, ps_idx, ps_out, ps_flushed, polls,
                   quit_calls, quit_said, poll_of, apiVars>>

\* processes start and exit: what ps lists changes.  The program sees the
\* listing only when it polls, so the change is modelled during the sleep
\* that precedes the poll.
PsListingChanges ==
    /\ ps_pc = "sleep"
    /\ \E m \in SUBSET PsPids : m # matching /\ matching' = m
    /\ UNCHANGED <<ps_args, ps_pc, pinfoset, ps_idx, ps_out, ps_flushed, polls,
                   quit_calls, quit_said, ps_sleeps, poll_of, apiVars>>

\* the statements of profile.profile_process
PsStep ==
    \/ PsWriteHeader
    \/ PsPoll
    \/ PsWriteRow
    \/ PsQuitPoll
    \/ PsQuitIfNone
    \/ PsSleep

NextPs ==
    \/ PsStep
    \/ PsListingChanges

SpecPs == InitPs /\ [][NextPs]_vars

\* every statement of the loop returns (ps answers, the sleep ends), so a
\* statement that can run does run
SpecPsFair == SpecPs /\ WF_vars(PsStep)

---------------------------------------------------------------------------
(* Claims about profile.profile_process *)

\* positions in ps_out of the rows written by poll n
RowsOfPoll(n) == {i \in 1..Len(ps_out) : poll_of[i] = n}

\* C21: quit_poll_func is called only by the quit test of a tick, once, after
\* every row of that tick's poll is written and before the tick's sleep, so
\* that it has been called once per poll made; when it returns True the loop
\* ends at once, and after the end nothing is polled, written or slept; the
\* quit_if_none test is reached only after the call of the same tick.
C21_QuitPredicateOncePerTick ==
    [][ /\ quit_calls' # quit_calls
           => ( /\ ps_pc = "quit_poll"
                /\ ps_args.quit_poll_func # None
                /\ quit_calls' = quit_calls + 1
                /\ quit_calls = polls - 1
                /\ ps_sleeps = polls - 1
                /\ ps_sleeps' = ps_sleeps
                /\ ps_out' = ps_out
                /\ polls' = polls
                /\ ps_args.output_stream # None
                   => Cardinality(RowsOfPoll(polls)) = Len(pinfoset)
                /\ ps_pc' = IF quit_said' THEN "done" ELSE "quit_none" )
        /\ ps_args.quit_poll_func # None
           => quit_calls' = IF ps_pc' \in {"write", "quit_poll"}
                              THEN polls' - 1
                              ELSE polls'
        /\ (ps_pc # "quit_none" /\ ps_pc' = "quit_none" /\ ps_args.quit_poll_func # None)
           => (quit_calls' = quit_calls + 1 /\ ~quit_said')
        /\ ps_pc = "done" => psVars' = psVars ]_vars

\* C21 witness: the predicate returned False after the first poll and True
\* after the second, whose rows are written; the loop has ended after one
\* sleep.
C21_Witness ==
    /\ ps_pc = "done"
    /\ quit_said
    /\ quit_calls = 2
    /\ polls = 2
    /\ ps_sleeps = 1
    /\ RowsOfPoll(2) # {}
    /\ Len(pinfoset) > 0

\* C22: with quit_if_none, the quit_if_none test of a poll that found no
\* record ends the loop, with no row of that poll written and no sleep, and
\* the loop goes on to sleep and to a further poll only after a poll that
\* found records (so it ends at the first poll that finds none); a poll made
\* while ps lists no record of the process leads to the end of the run; and
\* with quit_if_none=False and no quit_poll_func the loop never ends.
C22_QuitIfNone ==
    /\ [][ /\ (ps_pc = "quit_none" /\ ps_args.quit_if_none /\ Len(pinfoset) = 0)
              => ( /\ ps_pc' = "done"
                   /\ RowsOfPoll(polls) = {}
                   /\ ps_out' = ps_out
                   /\ ps_sleeps' = ps_sleeps
                   /\ polls' = polls )
           /\ (ps_args.quit_if_none /\ ps_pc' = "sleep") => Len(pinfoset') > 0
           /\ (ps_args.quit_if_none /\ polls' > polls /\ polls >= 1)
              => Len(pinfoset) > 0 ]_vars
    /\ (ps_args.quit_if_none /\ ps_pc = "poll" /\ poll_process = <<>>)
          ~> (ps_pc = "done")
    /\ []((~ps_args.quit_if_none /\ ps_args.quit_poll_func = None) => ps_pc # "done")

\* C22 witness: with quit_if_none and no predicate, the first poll found a
\* record and wrote its row, the second found none and wrote nothing, and
\* the loop has ended.
C22_Witness ==
    /\ ps_args.quit_if_none
    /\ ps_args.quit_poll_func = None
    /\ ps_pc = "done"
    /\ polls = 2
    /\ RowsOfPoll(1) # {}
    /\ RowsOfPoll(2) = {}
    /\ pinfoset = <<>>

====
